---- MODULE Spec2Model ----
(***************************************************************************)
(* Model of main.py, the IMDb Mini API: the movie lookup, the record and   *)
(* tag builder (movie_details), the template renderer (render_template)    *)
(* and the poster download (get_poster).                                   *)
(*                                                                         *)
(* Text is a sequence of one-character strings.  A Python value is a       *)
(* tagged record: None, a str, an int, a float with one decimal, a list.   *)
(* A provider movie is a function from provider field names to values; a   *)
(* field that is not in its domain is an absent field.                     *)
(***************************************************************************)
EXTENDS Integers, Sequences, FiniteSets, TLC

VARIABLES pc, request, provided, response, effects, tmpFiles, openFiles

vars == <<pc, request, provided, response, effects, tmpFiles, openFiles>>

(***************************************************************************)
(* Bounds                                                                  *)
(***************************************************************************)
MaxCast == 22
MaxIdLen == 2
MaxPieces == 4
MaxTmpFiles == 2
MaxChunks == 2

(***************************************************************************)
(* Python values                                                           *)
(***************************************************************************)
None == [t |-> "none"]
StrV(s) == [t |-> "str", s |-> s]
IntV(n) == [t |-> "int", n |-> n]
FloatV(w, f) == [t |-> "float", w |-> w, f |-> f]
ListV(xs) == [t |-> "list", xs |-> xs]

\* bool(v): None, "", 0, 0.0 and [] are false
Truthy(v) ==
  CASE v.t = "none" -> FALSE
    [] v.t = "str" -> v.s # <<>>
    [] v.t = "int" -> v.n # 0
    [] v.t = "float" -> v.w # 0 \/ v.f # 0
    [] v.t = "list" -> v.xs # <<>>
    [] OTHER -> TRUE

\* a or b
Or(a, b) == IF Truthy(a) THEN a ELSE b

DigitChars == <<"0", "1", "2", "3", "4", "5", "6", "7", "8", "9">>

RECURSIVE IntToStr(_)
IntToStr(n) ==
  IF n < 10 THEN <<DigitChars[n + 1]>>
  ELSE IntToStr(n \div 10) \o <<DigitChars[(n % 10) + 1]>>

\* str(v) for the scalar values a movie field holds
PyStr(v) ==
  CASE v.t = "none" -> <<"N", "o", "n", "e">>
    [] v.t = "str" -> v.s
    [] v.t = "int" -> IntToStr(v.n)
    [] v.t = "float" -> IntToStr(v.w) \o <<".">> \o IntToStr(v.f)
    [] v.t = "person" -> v.name
    [] OTHER -> <<>>

LowerChars == <<"a", "b", "c", "d", "e", "f", "g", "h", "i", "j", "k", "l", "m",
                "n", "o", "p", "q", "r", "s", "t", "u", "v", "w", "x", "y", "z">>
UpperChars == <<"A", "B", "C", "D", "E", "F", "G", "H", "I", "J", "K", "L", "M",
                "N", "O", "P", "Q", "R", "S", "T", "U", "V", "W", "X", "Y", "Z">>

UpperChar(c) ==
  IF \E i \in 1..26 : LowerChars[i] = c
  THEN UpperChars[CHOOSE i \in 1..26 : LowerChars[i] = c]
  ELSE c

\* s.upper()
Upper(s) == [i \in 1..Len(s) |-> UpperChar(s[i])]

Whitespace == {" ", "\n", "\t", "\r"}

\* s.strip()
RECURSIVE LStrip(_)
LStrip(s) == IF s # <<>> /\ Head(s) \in Whitespace THEN LStrip(Tail(s)) ELSE s

RECURSIVE RStrip(_)
RStrip(s) ==
  IF s # <<>> /\ s[Len(s)] \in Whitespace THEN RStrip(SubSeq(s, 1, Len(s) - 1)) ELSE s

Strip(s) == RStrip(LStrip(s))

\* s[:n]
Take(s, n) == SubSeq(s, 1, IF Len(s) < n THEN Len(s) ELSE n)

\* s[n:]
Drop(s, n) == SubSeq(s, n + 1, Len(s))

(***************************************************************************)
(* Tag names and fixed texts                                               *)
(***************************************************************************)
K_TITLE == <<"T", "I", "T", "L", "E">>
K_YEAR == <<"Y", "E", "A", "R">>
K_RATING == <<"R", "A", "T", "I", "N", "G">>
K_VOTES == <<"V", "O", "T", "E", "S">>
K_DURATION == <<"D", "U", "R", "A", "T", "I", "O", "N">>
K_GENRE == <<"G", "E", "N", "R", "E">>
K_LANGUAGE == <<"L", "A", "N", "G", "U", "A", "G", "E">>
K_COUNTRY_OF_ORIGIN ==
  <<"C", "O", "U", "N", "T", "R", "Y", "_", "O", "F", "_", "O", "R", "I", "G", "I", "N">>
K_STORY_LINE == <<"S", "T", "O", "R", "Y", "_", "L", "I", "N", "E">>
K_IMDb_TITLE_TYPE ==
  <<"I", "M", "D", "b", "_", "T", "I", "T", "L", "E", "_", "T", "Y", "P", "E">>
K_IMG_POSTER == <<"I", "M", "G", "_", "P", "O", "S", "T", "E", "R">>
K_ACTORS == <<"A", "C", "T", "O", "R", "S">>
K_DIRECTORS == <<"D", "I", "R", "E", "C", "T", "O", "R", "S">>
K_WRITERS == <<"W", "R", "I", "T", "E", "R", "S">>
K_IMDB_URL == <<"I", "M", "D", "B", "_", "U", "R", "L">>

TagKeys ==
  {K_TITLE, K_YEAR, K_RATING, K_VOTES, K_DURATION, K_GENRE, K_LANGUAGE,
   K_COUNTRY_OF_ORIGIN, K_STORY_LINE, K_IMDb_TITLE_TYPE, K_IMG_POSTER,
   K_ACTORS, K_DIRECTORS, K_WRITERS, K_IMDB_URL}

UrlPrefix ==
  <<"h", "t", "t", "p", "s", ":", "/", "/", "w", "w", "w", ".", "i", "m", "d", "b",
    ".", "c", "o", "m", "/", "t", "i", "t", "l", "e", "/">>
MovieNotFound ==
  <<"M", "o", "v", "i", "e", " ", "n", "o", "t", " ", "f", "o", "u", "n", "d">>
NoPosterFound ==
  <<"N", "o", " ", "p", "o", "s", "t", "e", "r", " ", "f", "o", "u", "n", "d">>
PosterFetchFailed ==
  <<"P", "o", "s", "t", "e", "r", " ", "f", "e", "t", "c", "h", " ", "f", "a", "i",
    "l", "e", "d">>

(***************************************************************************)
(* The provider: ia.get_movie(movie_id) raises, or returns a record that   *)
(* is false (no record), or returns a movie.                               *)
(***************************************************************************)
Raises(msg) == [t |-> "raise", msg |-> msg]
NoRecord == [t |-> "norecord"]
Movie(data) == [t |-> "movie", data |-> data]

Person(name, personID) == [t |-> "person", name |-> name, personID |-> personID]

\* a call the handler makes to the outside: the provider, the HTTP client,
\* the temporary file
Ev(op, arg) == [op |-> op, arg |-> arg]

\* HTTPException(status_code, detail)
HTTPException(status, detail) == [status |-> status, detail |-> detail]

\* _get_movie_by_imdb_id: one provider call with the "tt" prefix stripped;
\* an exception becomes a 500 carrying its message, a false record a 404.
get_movie_by_imdb_id_retry(imdb_id, outcome) ==
  LET movie_id == IF Len(imdb_id) >= 2 /\ SubSeq(imdb_id, 1, 2) = <<"t", "t">>
                  THEN Drop(imdb_id, 2) ELSE imdb_id
  IN  CASE outcome.t = "raise" ->
             [effects |-> <<Ev("get_movie", movie_id), Ev("get_movie", movie_id)>>, ok |-> FALSE,
              error |-> HTTPException(500, outcome.msg)]
        [] outcome.t = "norecord" ->
             [effects |-> <<Ev("get_movie", movie_id)>>, ok |-> FALSE,
              error |-> HTTPException(404, MovieNotFound)]
        [] OTHER ->
             [effects |-> <<Ev("get_movie", movie_id)>>, ok |-> TRUE, movie |-> outcome.data]

get_movie_by_imdb_id(imdb_id, outcome) ==
  LET movie_id == IF Len(imdb_id) >= 2 /\ SubSeq(imdb_id, 1, 2) = <<"t", "t">>
                  THEN Drop(imdb_id, 2) ELSE imdb_id
  IN  CASE outcome.t = "raise" ->
             [effects |-> <<Ev("get_movie", movie_id)>>, ok |-> FALSE,
              error |-> HTTPException(500, outcome.msg)]
        [] outcome.t = "norecord" ->
             [effects |-> <<Ev("get_movie", movie_id)>>, ok |-> FALSE,
              error |-> HTTPException(404, MovieNotFound)]
        [] OTHER ->
             [effects |-> <<Ev("get_movie", movie_id)>>, ok |-> TRUE, movie |-> outcome.data]

\* movie.get(key, None)
sget(movie, key) == IF key \in DOMAIN movie THEN movie[key] ELSE None

\* sget("cast")[:20]
CastLimit == 20

\* sget(key) or []
OrEmpty(v) == Or(v, ListV(<<>>))

\* movie_details, the cast_list loop: the first 20 entries of the provider
\* cast, each as {"name": str(p), "imdb_id": p.personID}
cast_list_off_by_one(movie) ==
  IF Truthy(sget(movie, "cast"))
  THEN LET cast == Take(sget(movie, "cast").xs, CastLimit + 1)
       IN  [i \in 1..Len(cast) |->
              [name |-> StrV(PyStr(cast[i])), imdb_id |-> cast[i].personID]]
  ELSE <<>>

cast_list(movie) ==
  IF Truthy(sget(movie, "cast"))
  THEN LET cast == Take(sget(movie, "cast").xs, CastLimit)
       IN  [i \in 1..Len(cast) |->
              [name |-> StrV(PyStr(cast[i])), imdb_id |-> cast[i].personID]]
  ELSE <<>>

\* [str(d) for d in v or []]
StrEach(v) == LET xs == OrEmpty(v).xs IN ListV([i \in 1..Len(xs) |-> StrV(PyStr(xs[i]))])

\* movie_details after the lookup: the response built from the movie
build_response(imdb_id, movie) ==
  LET title == sget(movie, "title")
      year == sget(movie, "year")
      rating == sget(movie, "rating")
      votes == sget(movie, "votes")
      runtimes == OrEmpty(sget(movie, "runtimes"))
      runtime == IF Truthy(runtimes) THEN runtimes.xs[1] ELSE None
      genres == OrEmpty(sget(movie, "genres"))
      plot == IF Truthy(sget(movie, "plot")) THEN sget(movie, "plot").xs[1] ELSE None
      languages == OrEmpty(sget(movie, "languages"))
      countries == OrEmpty(sget(movie, "countries"))
      poster == Or(Or(sget(movie, "full-size cover url"), sget(movie, "cover url")),
                   sget(movie, "cover"))
      kind == sget(movie, "kind")
      cast == cast_list(movie)
      directors == StrEach(sget(movie, "directors"))
      writers == StrEach(sget(movie, "writers"))
      tags == K_TITLE :> title
              @@ K_YEAR :> year
              @@ K_RATING :> rating
              @@ K_VOTES :> votes
              @@ K_DURATION :> runtime
              @@ K_GENRE :> genres
              @@ K_LANGUAGE :> languages
              @@ K_COUNTRY_OF_ORIGIN :> countries
              @@ K_STORY_LINE :> plot
              @@ K_IMDb_TITLE_TYPE :> kind
              @@ K_IMG_POSTER :> poster
              @@ K_ACTORS :> ListV([i \in 1..Len(cast) |-> cast[i].name])
              @@ K_DIRECTORS :> directors
              @@ K_WRITERS :> writers
              @@ K_IMDB_URL :> StrV(UrlPrefix \o imdb_id \o <<"/">>)
  IN  [meta |-> [title |-> title, year |-> year, imdb_id |-> imdb_id,
                 kind |-> kind, poster |-> poster],
       tags |-> tags]

\* movie_details(imdb_id) against a provider that answers with outcome
movie_details(imdb_id, outcome) ==
  LET got == get_movie_by_imdb_id(imdb_id, outcome)
  IN  IF got.ok
      THEN [effects |-> got.effects, ok |-> TRUE, body |-> build_response(imdb_id, got.movie)]
      ELSE got

(***************************************************************************)
(* Inputs                                                                  *)
(***************************************************************************)
IdDigits == {"0", "7"}

\* the provider's numeric ids, 1..MaxIdLen digits
NumericIds == UNION {[1..n -> IdDigits] : n \in 1..MaxIdLen}

\* an identifier as a client sends it: with or without the "tt" prefix
IdInputs == NumericIds \cup {<<"t", "t">> \o n : n \in NumericIds}

T_Up == <<"U", "p">>
T_HashYear == <<"#", "Y", "E", "A", "R">>
T_Drama == <<"D", "r", "a", "m", "a">>
T_Thriller == <<"T", "h", "r", "i", "l", "l", "e", "r">>
T_movie == <<"m", "o", "v", "i", "e">>
T_English == <<"E", "n", "g", "l", "i", "s", "h">>
T_USA == <<"U", "S", "A">>
T_139 == <<"1", "3", "9">>
T_plot == <<"A", " ", "p", "l", "o", "t">>
T_timeout == <<"t", "i", "m", "e", "o", "u", "t">>
T_full == <<"h", "t", "t", "p", ":", "/", "/", "p", "/", "f", ".", "j", "p", "g">>
T_coverurl == <<"h", "t", "t", "p", ":", "/", "/", "p", "/", "c", ".", "j", "p", "g">>
T_cover == <<"h", "t", "t", "p", ":", "/", "/", "p", "/", "x", ".", "j", "p", "g">>

\* the i-th cast member; every third one has no personID attribute
Actor(i) == Person(<<"P">> \o IntToStr(i), IF i % 3 = 0 THEN None ELSE StrV(IntToStr(i)))

\* a provider cast of n entries, all different
CastOf(n) == ListV([i \in 1..n |-> Actor(i)])

FullMovie ==
  "title" :> StrV(T_Up)
  @@ "year" :> IntV(1999)
  @@ "rating" :> FloatV(8, 8)
  @@ "votes" :> IntV(120)
  @@ "runtimes" :> ListV(<<StrV(T_139)>>)
  @@ "genres" :> ListV(<<StrV(T_Drama), StrV(T_Thriller)>>)
  @@ "plot" :> ListV(<<StrV(T_plot), StrV(T_Up)>>)
  @@ "languages" :> ListV(<<StrV(T_English)>>)
  @@ "countries" :> ListV(<<StrV(T_USA), StrV(<<"U", "K">>), StrV(<<"N", "Z">>)>>)
  @@ "full-size cover url" :> StrV(T_full)
  @@ "cover url" :> StrV(T_coverurl)
  @@ "kind" :> StrV(T_movie)
  @@ "cast" :> CastOf(2)
  @@ "directors" :> ListV(<<Person(<<"D", "1">>, StrV(<<"9">>))>>)
  @@ "writers" :> ListV(<<Person(<<"W", "1">>, None), Person(<<"W", "2">>, None)>>)

\* a movie with nothing but a title
BareMovie == "title" :> StrV(T_Up)

\* movies for the record builder: every cast length up to MaxCast
DetailMovies ==
  {("cast" :> CastOf(n)) @@ m : n \in 0..MaxCast, m \in {FullMovie, BareMovie}}
  \cup {BareMovie, "cast" :> None @@ BareMovie}

DetailOutcomes ==
  {Raises(T_timeout), Raises(<<>>), NoRecord} \cup {Movie(m) : m \in DetailMovies}

(***************************************************************************)
(* The renderer: TAG_PATTERN = #([A-Z0-9_]+)|{([^}]+)} and its sub         *)
(***************************************************************************)
UpperSet == {UpperChars[i] : i \in 1..26}
DigitSet == {DigitChars[i] : i \in 1..10}

\* [A-Z0-9_]
IsTagChar(c) == c \in UpperSet \cup DigitSet \cup {"_"}

\* the last index of the run of [A-Z0-9_] that starts at i (i - 1 if none)
RECURSIVE RunEnd(_, _)
RunEnd(s, i) == IF i <= Len(s) /\ IsTagChar(s[i]) THEN RunEnd(s, i + 1) ELSE i - 1

\* the index of the first "}" at or after i (0 if none)
RECURSIVE FirstClose(_, _)
FirstClose(s, i) ==
  IF i > Len(s) THEN 0 ELSE IF s[i] = "}" THEN i ELSE FirstClose(s, i + 1)

NoMatch == [found |-> FALSE]

\* TAG_PATTERN matched at position i: the first alternative, then the
\* second; both are greedy and need a name of one character at least
MatchAt_empty_name(s, i) ==
  IF s[i] = "#" /\ RunEnd(s, i + 1) > i
  THEN [found |-> TRUE, start |-> i, end |-> RunEnd(s, i + 1),
        group1 |-> StrV(SubSeq(s, i + 1, RunEnd(s, i + 1))), group2 |-> None]
  ELSE IF s[i] = "{" /\ FirstClose(s, i + 1) > i
  THEN [found |-> TRUE, start |-> i, end |-> FirstClose(s, i + 1),
        group1 |-> None, group2 |-> StrV(SubSeq(s, i + 1, FirstClose(s, i + 1) - 1))]
  ELSE NoMatch

MatchAt(s, i) ==
  IF s[i] = "#" /\ RunEnd(s, i + 1) > i
  THEN [found |-> TRUE, start |-> i, end |-> RunEnd(s, i + 1),
        group1 |-> StrV(SubSeq(s, i + 1, RunEnd(s, i + 1))), group2 |-> None]
  ELSE IF s[i] = "{" /\ FirstClose(s, i + 1) > i + 1
  THEN [found |-> TRUE, start |-> i, end |-> FirstClose(s, i + 1),
        group1 |-> None, group2 |-> StrV(SubSeq(s, i + 1, FirstClose(s, i + 1) - 1))]
  ELSE NoMatch

\* the matches of TAG_PATTERN in s from position i on, leftmost first, each
\* search starting where the previous match ended
RECURSIVE finditer(_, _)
finditer(s, i) ==
  IF i > Len(s) THEN <<>>
  ELSE IF MatchAt(s, i).found
       THEN <<MatchAt(s, i)>> \o finditer(s, MatchAt(s, i).end + 1)
       ELSE finditer(s, i + 1)

\* sep.join(xs)
RECURSIVE Join(_, _)
Join(sep, xs) ==
  IF xs = <<>> THEN <<>>
  ELSE IF Len(xs) = 1 THEN xs[1]
  ELSE xs[1] \o sep \o Join(sep, Tail(xs))

\* tags.get(key)
tags_get(tags, key) == IF key \in DOMAIN tags THEN tags[key] ELSE None

\* replacer(match): the text that replaces one match
replacer_comma(tags, match) ==
  LET key == Strip(Upper(Or(Or(match.group1, match.group2), StrV(<<>>)).s))
      val == tags_get(tags, key)
  IN  IF val.t = "none" THEN <<>>
      ELSE IF val.t = "list"
           THEN Join(<<",">>, [i \in 1..Len(val.xs) |-> PyStr(val.xs[i])])
           ELSE PyStr(val)

replacer(tags, match) ==
  LET key == Strip(Upper(Or(Or(match.group1, match.group2), StrV(<<>>)).s))
      val == tags_get(tags, key)
  IN  IF val.t = "none" THEN <<>>
      ELSE IF val.t = "list"
           THEN Join(<<",", " ">>, [i \in 1..Len(val.xs) |-> PyStr(val.xs[i])])
           ELSE PyStr(val)

\* the text of s from position i on with the matches ms replaced
RECURSIVE Splice(_, _, _, _)
Splice(tags, s, i, ms) ==
  IF ms = <<>> THEN SubSeq(s, i, Len(s))
  ELSE SubSeq(s, i, ms[1].start - 1) \o replacer(tags, ms[1])
       \o Splice(tags, s, ms[1].end + 1, Tail(ms))

\* TAG_PATTERN.sub(replacer, template): one pass over the template
pattern_sub_rescan(tags, template) ==
  LET once == Splice(tags, template, 1, finditer(template, 1))
  IN  Splice(tags, once, 1, finditer(once, 1))

pattern_sub(tags, template) == Splice(tags, template, 1, finditer(template, 1))

\* render_template(imdb_id, template) against a provider that answers with
\* outcome
render_template(imdb_id, template, outcome) ==
  LET movie_resp == movie_details(imdb_id, outcome)
  IN  IF movie_resp.ok
      THEN [effects |-> movie_resp.effects, ok |-> TRUE,
            body |-> [rendered |-> pattern_sub(movie_resp.body.tags, template)]]
      ELSE movie_resp

(***************************************************************************)
(* The poster download                                                     *)
(***************************************************************************)
InternalServerError ==
  <<"I", "n", "t", "e", "r", "n", "a", "l", " ", "S", "e", "r", "v", "e", "r", " ",
    "E", "r", "r", "o", "r">>
DotJpg == <<".", "j", "p", "g">>

\* requests.get(poster, stream=True) raises, or answers with a status and a
\* body of some chunks whose stream may break after them
HttpRaises == [t |-> "raise"]
HttpResponse(status, chunks, broken) ==
  [t |-> "response", status |-> status, chunks |-> chunks, broken |-> broken]

\* the three provider fields in their order of preference
poster_of(movie) ==
  Or(Or(sget(movie, "full-size cover url"), sget(movie, "cover url")),
     sget(movie, "cover"))

\* get_poster(imdb_id) against a provider that answers with outcome and an
\* HTTP server that answers with http; name is the name the temporary file
\* gets.  An exception the handler does not catch is the server's 500.
get_poster_fetch_first(imdb_id, outcome, http, name) ==
  LET got == get_movie_by_imdb_id(imdb_id, outcome)
      poster == poster_of(got.movie)
      fetch == Ev("requests.get", poster)
      create == Ev("NamedTemporaryFile", name)
      writes == [i \in 1..http.chunks |-> Ev("write", name)]
  IN  IF ~got.ok THEN got @@ [files |-> {}]
      ELSE IF http.t = "raise"
      THEN [effects |-> got.effects \o <<fetch>>, ok |-> FALSE, files |-> {},
            error |-> HTTPException(500, InternalServerError)]
      ELSE IF ~Truthy(poster)
      THEN [effects |-> got.effects \o <<fetch>>, ok |-> FALSE, files |-> {},
            error |-> HTTPException(404, NoPosterFound)]
      ELSE IF http.status # 200
      THEN [effects |-> got.effects \o <<fetch>>, ok |-> FALSE, files |-> {},
            error |-> HTTPException(500, PosterFetchFailed)]
      ELSE IF http.broken
      THEN [effects |-> got.effects \o <<fetch, create>> \o writes, ok |-> FALSE,
            files |-> {[name |-> name, size |-> http.chunks, open |-> TRUE]},
            error |-> HTTPException(500, InternalServerError)]
      ELSE [effects |-> got.effects \o <<fetch, create>> \o writes \o <<Ev("close", name)>>,
            ok |-> TRUE,
            files |-> {[name |-> name, size |-> http.chunks, open |-> FALSE]},
            body |-> [file |-> name, filename |-> imdb_id \o DotJpg]]

get_poster(imdb_id, outcome, http, name) ==
  LET got == get_movie_by_imdb_id(imdb_id, outcome)
      poster == poster_of(got.movie)
      fetch == Ev("requests.get", poster)
      create == Ev("NamedTemporaryFile", name)
      writes == [i \in 1..http.chunks |-> Ev("write", name)]
  IN  IF ~got.ok THEN got @@ [files |-> {}]
      ELSE IF ~Truthy(poster)
      THEN [effects |-> got.effects, ok |-> FALSE, files |-> {},
            error |-> HTTPException(404, NoPosterFound)]
      ELSE IF http.t = "raise"
      THEN [effects |-> got.effects \o <<fetch>>, ok |-> FALSE, files |-> {},
            error |-> HTTPException(500, InternalServerError)]
      ELSE IF http.status # 200
      THEN [effects |-> got.effects \o <<fetch>>, ok |-> FALSE, files |-> {},
            error |-> HTTPException(500, PosterFetchFailed)]
      ELSE IF http.broken
      THEN [effects |-> got.effects \o <<fetch, create>> \o writes, ok |-> FALSE,
            files |-> {[name |-> name, size |-> http.chunks, open |-> TRUE]},
            error |-> HTTPException(500, InternalServerError)]
      ELSE [effects |-> got.effects \o <<fetch, create>> \o writes \o <<Ev("close", name)>>,
            ok |-> TRUE,
            files |-> {[name |-> name, size |-> http.chunks, open |-> FALSE]},
            body |-> [file |-> name, filename |-> imdb_id \o DotJpg]]

(***************************************************************************)
(* Inputs of the renderer and of the poster download                       *)
(***************************************************************************)
K_NOPE == <<"N", "O", "P", "E">>
T_title == <<"t", "i", "t", "l", "e">>

\* the texts templates are made of
Pieces == {<<"#">>, <<"{">>, <<"}">>, <<"\n">>, <<" ">>, <<"x">>, K_TITLE}

RECURSIVE Flatten(_)
Flatten(ps) == IF ps = <<>> THEN <<>> ELSE Head(ps) \o Flatten(Tail(ps))

\* template: str = Query(..., min_length=1)
PieceTemplates ==
  {Flatten(ps) : ps \in UNION {[1..n -> Pieces] : n \in 1..MaxPieces}}

Hash(K) == <<"#">> \o K
Braces(K) == <<"{">> \o K \o <<"}">>

\* one placeholder of either form for every tag, for a name that is no tag
\* and for a tag in lower case
KeyTemplates ==
  {Hash(K) : K \in TagKeys \cup {K_NOPE, T_title}}
  \cup {Braces(K) : K \in TagKeys \cup {K_NOPE, T_title}}

\* a movie whose title reads as a placeholder
HashTitleMovie == "title" :> StrV(T_HashYear) @@ "year" :> IntV(1999)
BraceTitleMovie ==
  "title" :> StrV(Braces(K_GENRE)) @@ "genres" :> ListV(<<StrV(T_Drama)>>)

\* a movie whose fields are empty
EmptyMovie ==
  "title" :> StrV(<<>>) @@ "genres" :> ListV(<<>>) @@ "year" :> IntV(1999)
  @@ "cover" :> StrV(<<>>)

RenderMovies == {FullMovie, HashTitleMovie, BraceTitleMovie, EmptyMovie, BareMovie}

RenderOutcomes == {Raises(T_timeout), NoRecord} \cup {Movie(m) : m \in RenderMovies}

RenderIds == {<<"7">>, <<"t", "t", "7">>}

PosterFields == {"full-size cover url", "cover url", "cover"}

PosterUrl(k) ==
  CASE k = "full-size cover url" -> T_full
    [] k = "cover url" -> T_coverurl
    [] OTHER -> T_cover

PosterFieldValue(k, how) ==
  CASE how = "null" -> None
    [] how = "empty" -> StrV(<<>>)
    [] OTHER -> StrV(PosterUrl(k))

\* every way to have each of the three poster fields absent, null, empty or set
PosterMovies ==
  {[k \in S \cup {"title"} |->
      IF k = "title" THEN StrV(T_Up) ELSE PosterFieldValue(k, f[k])] :
     S \in SUBSET PosterFields, f \in [PosterFields -> {"null", "empty", "set"}]}

PosterOutcomes == {Raises(T_timeout), NoRecord} \cup {Movie(m) : m \in PosterMovies}

HttpOutcomes ==
  {HttpRaises, HttpResponse(404, 0, FALSE)}
  \cup {HttpResponse(200, n, b) : n \in 0..MaxChunks, b \in BOOLEAN}

NoHttp == [t |-> "none"]

TmpName(n) == <<"t", "m", "p">> \o IntToStr(n)

(***************************************************************************)
(* State machine: one request at a time, from the call of its handler to   *)
(* the end of its response.  effects are the calls the handler of the      *)
(* current request made, tmpFiles the temporary files on the disk and      *)
(* openFiles those of them the handler left open.                          *)
(***************************************************************************)
NoRequest == [endpoint |-> "none"]
NoResponse == [status |-> 0]
NoProvided == [provider |-> NoRecord, http |-> NoHttp]

Init ==
  /\ pc = "idle"
  /\ request = NoRequest
  /\ provided = NoProvided
  /\ response = NoResponse
  /\ effects = <<>>
  /\ tmpFiles = {}
  /\ openFiles = {}

\* what the server answers for the result r of a handler
ResponseOf(r) ==
  IF r.ok THEN [status |-> 200, body |-> r.body]
  ELSE [status |-> r.error.status, detail |-> r.error.detail]

\* GET /movie/{imdb_id}
MovieDetails(imdb_id, outcome) ==
  /\ pc = "idle"
  /\ request' = [endpoint |-> "movie", imdb_id |-> imdb_id]
  /\ provided' = [provider |-> outcome, http |-> NoHttp]
  /\ effects' = movie_details(imdb_id, outcome).effects
  /\ response' = ResponseOf(movie_details(imdb_id, outcome))
  /\ pc' = "done"
  /\ UNCHANGED <<tmpFiles, openFiles>>

\* GET /render?imdb_id=..&template=..
RenderTemplate(imdb_id, template, outcome) ==
  /\ pc = "idle"
  /\ request' = [endpoint |-> "render", imdb_id |-> imdb_id, template |-> template]
  /\ provided' = [provider |-> outcome, http |-> NoHttp]
  /\ effects' = render_template(imdb_id, template, outcome).effects
  /\ response' = ResponseOf(render_template(imdb_id, template, outcome))
  /\ pc' = "done"
  /\ UNCHANGED <<tmpFiles, openFiles>>

\* GET /poster/{imdb_id}: the handler returns a FileResponse, which the
\* server then sends, or fails
GetPoster(imdb_id, outcome, http) ==
  /\ pc = "idle"
  /\ Cardinality(tmpFiles) < MaxTmpFiles
  /\ LET r == get_poster(imdb_id, outcome, http, TmpName(Cardinality(tmpFiles) + 1))
     IN  /\ request' = [endpoint |-> "poster", imdb_id |-> imdb_id]
         /\ provided' = [provider |-> outcome, http |-> http]
         /\ effects' = r.effects
         /\ response' = ResponseOf(r)
         /\ tmpFiles' = tmpFiles \cup {[name |-> f.name, size |-> f.size] : f \in r.files}
         /\ openFiles' = openFiles \cup {f.name : f \in {g \in r.files : g.open}}
         /\ pc' = IF r.ok THEN "responding" ELSE "done"

\* FileResponse: the server sends the file the handler named; nothing
\* is registered to run after the response
SendFile ==
  /\ pc = "responding"
  /\ pc' = "done"
  /\ UNCHANGED <<request, provided, response, effects, tmpFiles, openFiles>>

\* the request is over; the next one starts with nothing kept but the files
\* on the disk
NextRequest ==
  /\ pc = "done"
  /\ pc' = "idle"
  /\ request' = NoRequest
  /\ provided' = NoProvided
  /\ response' = NoResponse
  /\ effects' = <<>>
  /\ UNCHANGED <<tmpFiles, openFiles>>

DetailsRequest ==
  /\ pc = "idle"
  /\ \E imdb_id \in IdInputs, outcome \in DetailOutcomes : MovieDetails(imdb_id, outcome)

RenderRequest ==
  /\ pc = "idle"
  /\ \E template \in PieceTemplates, movie \in RenderMovies :
       RenderTemplate(<<"t", "t", "7">>, template, Movie(movie))

KeyRenderRequest ==
  /\ pc = "idle"
  /\ \E imdb_id \in RenderIds, template \in KeyTemplates, outcome \in RenderOutcomes :
       RenderTemplate(imdb_id, template, outcome)

PosterRequest ==
  /\ pc = "idle"
  /\ \E imdb_id \in RenderIds, outcome \in PosterOutcomes, http \in HttpOutcomes :
       GetPoster(imdb_id, outcome, http)

\* the record builder alone
NextDetails == DetailsRequest \/ NextRequest
SpecDetails == Init /\ [][NextDetails]_vars

\* the renderer alone
NextRender == RenderRequest \/ KeyRenderRequest \/ NextRequest
SpecRender == Init /\ [][NextRender]_vars

\* the poster download alone
NextPoster == PosterRequest \/ SendFile \/ NextRequest
SpecPoster == Init /\ [][NextPoster]_vars

\* the three endpoints that look a movie up
Next == DetailsRequest \/ KeyRenderRequest \/ PosterRequest \/ SendFile \/ NextRequest
Spec == Init /\ [][Next]_vars

(***************************************************************************)
(* Properties                                                              *)
(***************************************************************************)
\* the handler of endpoint ep has returned
Returned(ep) == pc \in {"responding", "done"} /\ request.endpoint = ep

\* the handler of endpoint ep has returned a success
Succeeded(ep) == Returned(ep) /\ response.status = 200

\* the tags the current request's movie gives
TagsNow == build_response(request.imdb_id, provided.provider.data).tags

\* None, the empty string, the empty sequence
EmptyValue(v) ==
  \/ v.t = "none"
  \/ v.t = "str" /\ v.s = <<>>
  \/ v.t = "list" /\ v.xs = <<>>

\* the calls of the current request to an outside operation
CallsTo(op) == SelectSeq(effects, LAMBDA e : e.op = op)

TT == <<"t", "t">>

\* C2: for every numeric id n, movie_details of n and of "tt"+n both answer
\* with meta.imdb_id = "tt"+n and IMDB_URL = https://www.imdb.com/title/tt<n>/
C2_CanonicalId ==
  \A n \in NumericIds :
    (Succeeded("movie") /\ request.imdb_id \in {n, TT \o n})
      => /\ response.body.meta.imdb_id = TT \o n
         /\ response.body.tags[K_IMDB_URL] = StrV(UrlPrefix \o TT \o n \o <<"/">>)

\* the provider's cast of the current request, [] when absent or null
ProviderCast == OrEmpty(sget(provided.provider.data, "cast")).xs

Min(a, b) == IF a < b THEN a ELSE b

\* C5: the ACTORS tag is the first min(n, 20) entries of the provider's cast
\* of n entries, in the provider's order
C5_CastFirstTwenty ==
  Succeeded("movie") =>
    LET actors == response.body.tags[K_ACTORS].xs
    IN  /\ Len(actors) = Min(Len(ProviderCast), 20)
        /\ Len(actors) <= 20
        /\ \A i \in 1..Len(actors) : actors[i] = StrV(ProviderCast[i].name)

C5_Witness ==
  /\ Succeeded("movie")
  /\ Len(ProviderCast) > 20
  /\ Len(response.body.tags[K_ACTORS].xs) = 20

\* C8: every lookup calls the provider once; a provider exception is a 500
\* with the exception's message, no record is a 404, and in both cases the
\* response carries nothing else and nothing else was fetched or created
C8_OneLookupNoRetry ==
  (pc \in {"responding", "done"}) =>
    /\ Len(CallsTo("get_movie")) = 1
    /\ provided.provider.t = "raise" =>
         /\ response = [status |-> 500, detail |-> provided.provider.msg]
         /\ Len(effects) = 1
    /\ provided.provider.t = "norecord" =>
         /\ response.status = 404
         /\ DOMAIN response = {"status", "detail"}
         /\ Len(effects) = 1

C8_Witness ==
  /\ Returned("poster")
  /\ provided.provider = Raises(T_timeout)
  /\ response = [status |-> 500, detail |-> T_timeout]

\* none of the three poster fields of the current request's movie is
\* present and non-empty
NoPosterField ==
  /\ provided.provider.t = "movie"
  /\ \A k \in PosterFields : ~Truthy(sget(provided.provider.data, k))

\* C7: with no poster field get_poster answers 404 and has neither fetched
\* anything nor created a temporary file
C7_NoPosterIs404 ==
  (Returned("poster") /\ NoPosterField) =>
    /\ response = [status |-> 404, detail |-> NoPosterFound]
    /\ CallsTo("requests.get") = <<>>
    /\ CallsTo("NamedTemporaryFile") = <<>>

C7_Witness ==
  /\ Returned("poster")
  /\ NoPosterField
  /\ "cover" \in DOMAIN provided.provider.data
  /\ response.status = 404

\* C3: once a poster request has ended no temporary file is left, closed or
\* open
C3_TmpReleased == (pc = "done") => (tmpFiles = {} /\ openFiles = {})

\* the template of the current request is one placeholder for K, of either
\* form
PlaceholderFor(K) == request.template \in {Hash(K), Braces(K)}

\* C1: a placeholder #K or {K} whose tag K is absent, None, "" or [] is
\* replaced by the empty string
C1_EmptyTagDeleted ==
  \A K \in TagKeys \cup {K_NOPE} :
    (Succeeded("render") /\ PlaceholderFor(K) /\ EmptyValue(tags_get(TagsNow, K)))
      => response.body.rendered = <<>>

\* the string form of a tag value: a sequence reads as its elements joined
StringForm(v) ==
  IF v.t = "list" THEN Join(<<",", " ">>, [i \in 1..Len(v.xs) |-> PyStr(v.xs[i])])
  ELSE PyStr(v)

\* C10: for every tag K with a non-empty value the template {K} renders
\* the string form of the value, K normalized being a key of the tags
C10_EveryTagReachable ==
  \A K \in TagKeys :
    (Succeeded("render") /\ request.template = Braces(K) /\ ~EmptyValue(TagsNow[K]))
      => /\ Strip(Upper(K)) \in DOMAIN TagsNow
         /\ response.body.rendered = StringForm(TagsNow[K])

\* the place in the joined text after which the i-th element starts
RECURSIVE Offset(_, _)
Offset(xs, i) == IF i = 1 THEN 0 ELSE Offset(xs, i - 1) + Len(xs[i - 1]) + 2

\* out is the texts xs in their order with ", " between neighbours and
\* nothing else
JoinedBy(out, xs) ==
  /\ Len(out) = Offset(xs, Len(xs)) + Len(xs[Len(xs)])
  /\ \A i \in 1..Len(xs) :
       SubSeq(out, Offset(xs, i) + 1, Offset(xs, i) + Len(xs[i])) = xs[i]
  /\ \A i \in 1..(Len(xs) - 1) :
       /\ out[Offset(xs, i) + Len(xs[i]) + 1] = ","
       /\ out[Offset(xs, i) + Len(xs[i]) + 2] = " "

\* C6: the placeholder of a tag whose value is a sequence of more than one
\* element renders as the elements' string forms in order, ", " between them
C6_JoinCommaSpace ==
  \A K \in TagKeys :
    (Succeeded("render") /\ PlaceholderFor(K) /\ TagsNow[K].t = "list"
       /\ Len(TagsNow[K].xs) > 1)
      => JoinedBy(response.body.rendered,
                  [i \in 1..Len(TagsNow[K].xs) |-> PyStr(TagsNow[K].xs[i])])

C6_Witness ==
  /\ Succeeded("render")
  /\ request.template = Braces(K_COUNTRY_OF_ORIGIN)
  /\ Len(TagsNow[K_COUNTRY_OF_ORIGIN].xs) = 3
  /\ response.body.rendered = <<"U", "S", "A", ",", " ", "U", "K", ",", " ", "N", "Z">>

\* the template has a #NAME with NAME in [A-Z0-9_]+
HasHashTag(s) == \E i \in 1..(Len(s) - 1) : s[i] = "#" /\ IsTagChar(s[i + 1])

\* the template has a {NAME} with a non-empty NAME free of "}"
HasBraceTag(s) ==
  \E i, j \in 1..Len(s) :
    /\ i + 1 < j
    /\ s[i] = "{"
    /\ s[j] = "}"
    /\ \A k \in (i + 1)..(j - 1) : s[k] # "}"

\* the same with both braces on one line
HasBraceTagOnOneLine(s) ==
  \E i, j \in 1..Len(s) :
    /\ i + 1 < j
    /\ s[i] = "{"
    /\ s[j] = "}"
    /\ \A k \in (i + 1)..(j - 1) : s[k] # "}" /\ s[k] # "\n"

\* C4 as stated: a template with no #NAME and no {NAME} on one line is
\* rendered unchanged
C4_NoPlaceholderOnOneLineUnchanged ==
  (Succeeded("render") /\ ~HasHashTag(request.template)
     /\ ~HasBraceTagOnOneLine(request.template))
    => response.body.rendered = request.template

\* C4 amended: a template with no #NAME and no {NAME}, where NAME is a
\* non-empty run of characters other than "}" (line breaks included), is
\* rendered unchanged
C4_NoPlaceholderUnchanged ==
  (Succeeded("render") /\ ~HasHashTag(request.template)
     /\ ~HasBraceTag(request.template))
    => response.body.rendered = request.template

C4_Witness ==
  /\ Succeeded("render")
  /\ request.template = <<"{", "}", "#", "x">>
  /\ response.body.rendered = <<"{", "}", "#", "x">>

\* C9: the text put in for a placeholder is not scanned again, so a tag
\* whose text reads as a placeholder is rendered verbatim; and the matches
\* found in the template do not overlap.  (IMDb_TITLE_TYPE is left out of
\* the first part: no placeholder looks that key up, see C10.)
C9_SinglePass ==
  Succeeded("render") =>
    /\ \A K \in TagKeys \ {K_IMDb_TITLE_TYPE} :
         (PlaceholderFor(K) /\ TagsNow[K].t = "str")
           => response.body.rendered = TagsNow[K].s
    /\ LET ms == finditer(request.template, 1)
       IN  /\ \A i \in 1..(Len(ms) - 1) : ms[i].end < ms[i + 1].start
           /\ \A i \in 1..Len(ms) :
                1 <= ms[i].start /\ ms[i].start < ms[i].end
                  /\ ms[i].end <= Len(request.template)

C9_Witness ==
  /\ Succeeded("render")
  /\ request.template = Hash(K_TITLE)
  /\ TagsNow[K_TITLE] = StrV(T_HashYear)
  /\ TagsNow[K_YEAR] = IntV(1999)
  /\ response.body.rendered = T_HashYear

====
